---- MODULE Spec2Model ----
(***************************************************************************)
(* A model of api.py: get_ns_stations (the fetcher), ns_data_to_dataframe  *)
(* (the flattener) and the script entry point.  Python and JSON values are *)
(* tagged records, so that None, "", 0, False, "true" and True stay        *)
(* distinct values.  The network and the libraries (requests, pandas) are  *)
(* the environment: the outcome of the GET is chosen nondeterministically. *)
(***************************************************************************)
EXTENDS Integers, Sequences, FiniteSets, TLC

VARIABLES pc, entry, args, params, netCalls, resp, exc, fetchRet, out,
          data, idx, station_list, df, flattenCalls

vars == <<pc, entry, args, params, netCalls, resp, exc, fetchRet, out,
          data, idx, station_list, df, flattenCalls>>

(* ------------------------------ values ------------------------------- *)

None == [k |-> "none"]
Str(s) == [k |-> "str", s |-> s]
Num(n) == [k |-> "int", n |-> n]
Bool(b) == [k |-> "bool", b |-> b]
Flt(r) == [k |-> "float", r |-> r]
List(l) == [k |-> "list", l |-> l]
Obj(o) == [k |-> "obj", o |-> o]

\* A variable that holds no value yet (an unbound Python name).
Unset == [k |-> "unset"]

EmptyDict == Obj(<<>>)
EmptyList == List(<<>>)

\* Python's truth value of an object, as `if x:` tests it.
Truthy(v) ==
    CASE v.k = "none" -> FALSE
      [] v.k = "str" -> v.s # ""
      [] v.k = "int" -> v.n # 0
      [] v.k = "bool" -> v.b
      [] v.k = "float" -> v.r # "0.0"
      [] v.k = "list" -> Len(v.l) > 0
      [] v.k = "obj" -> DOMAIN v.o # {}
      [] OTHER -> FALSE

\* dict.get(key, default) on a dict value.
Get(d, key, default) == IF key \in DOMAIN d.o THEN d.o[key] ELSE default

\* Only a dict has .get: calling it on None, a str or a list raises
\* AttributeError.
HasGet(v) == v.k = "obj"

(* --------------------------- get_ns_stations ------------------------- *)

\* Function extension: the map m with key set to val (params[key] = val).
Put(m, key, val) == [x \in DOMAIN m \cup {key} |-> IF x = key THEN val ELSE m[x]]

ParamsNoStringFlag(q, include_non_plannable, country_codes, limit) ==
    LET p1 == IF Truthy(q) THEN Put(<<>>, "q", q) ELSE <<>>
        p2 == IF Truthy(include_non_plannable)
              THEN Put(p1, "includeNonPlannableStations", include_non_plannable)
              ELSE p1
        p3 == IF Truthy(country_codes) THEN Put(p2, "countryCodes", country_codes) ELSE p2
    IN  IF Truthy(limit) THEN Put(p3, "limit", limit) ELSE p3

\* Lines 34-42: the query parameters built from the filters.
BuildParams(q, include_non_plannable, country_codes, limit) ==
    LET p1 == IF Truthy(q) THEN Put(<<>>, "q", q) ELSE <<>>
        p2 == IF Truthy(include_non_plannable)
              THEN Put(p1, "includeNonPlannableStations", Str("true"))
              ELSE p1
        p3 == IF Truthy(country_codes) THEN Put(p2, "countryCodes", country_codes) ELSE p2
    IN  IF Truthy(limit) THEN Put(p3, "limit", limit) ELSE p3

\* The exceptions the try block can raise.  requests.get raises a
\* transport-level RequestException (ConnectionError, Timeout, ...);
\* raise_for_status raises HTTPError; response.json() on an undecodable body
\* raises requests.exceptions.JSONDecodeError (a RequestException) with
\* requests >= 2.27 and a plain ValueError with an older requests: the
\* source pins no version.
TransportErrors == {"ConnectionError", "Timeout"}
JsonErrors == {"RequestsJSONDecodeError", "ValueError"}

IsHTTPError(e) == e = "HTTPError"
IsRequestException(e) ==
    e \in TransportErrors \cup {"HTTPError", "RequestsJSONDecodeError"}

HandlerRequestFirst(e) ==
    IF IsRequestException(e) THEN "req"
    ELSE IF IsHTTPError(e) THEN "http"
    ELSE "propagate"

HandlerOnlyHTTP(e) == IF IsHTTPError(e) THEN "http" ELSE "propagate"

\* Lines 48-51: the except clause that handles exception e, tried in order.
Handler(e) ==
    IF IsHTTPError(e) THEN "http"
    ELSE IF IsRequestException(e) THEN "req"
    ELSE "propagate"

HttpLine == "HTTP error occurred"
RequestLine == "Request error occurred"
TableHeader == "NS Stations DataFrame:"
TableLine == "<DataFrame>"
FailureLine == "Failed to retrieve NS Stations data."

\* Response.raise_for_status raises for a 4xx or 5xx status.
RaisesForStatus(status) == status >= 400 /\ status < 600

AfterHandlerRetry == IF netCalls < 2 THEN "f_get" ELSE "f_return_none"

\* Lines 49-53: after an except clause has printed, control falls through
\* to `return None`; nothing sends the request again.
AfterHandler == "f_return_none"

(* ------------------------- ns_data_to_dataframe ---------------------- *)

\* station.get(k1, {}).get(k2, default)
Get2(station, k1, k2, default) == Get(Get(station, k1, EmptyDict), k2, default)

\* The keys whose value the dict literal calls .get on (lines 69-102).
SubObjects == {"id", "names", "location", "nearbyMeLocationId"}

\* Building station_info raises AttributeError when a chained .get is called
\* on a value that is no dict: the station itself, or the value
\* station.get(k1, {}) returns when k1 is present and holds None.
StationInfoRaises(station) ==
    \/ ~HasGet(station)
    \/ \E k1 \in SubObjects : ~HasGet(Get(station, k1, EmptyDict))

\* The keys of station_info in the order the dict literal inserts them.
RowKeys ==
    <<"uicCode", "evaCode", "cdCode", "code", "stationType", "name_long",
      "name_medium", "name_short", "name_festive", "synonyms", "lat", "lng",
      "tracks", "hasKnownFacilities", "availableForAccessibleTravel",
      "hasTravelAssistance", "areTracksIndependentlyAccessible",
      "isBorderStop", "country", "radius", "approachingRadius", "distance",
      "startDate", "endDate", "nearbyMeLocationId_value",
      "nearbyMeLocationId_type">>

StationInfoNoneSynonyms(station) ==
    [uicCode |-> Get2(station, "id", "uicCode", None),
     evaCode |-> Get2(station, "id", "evaCode", None),
     cdCode |-> Get2(station, "id", "cdCode", None),
     code |-> Get2(station, "id", "code", None),
     stationType |-> Get(station, "stationType", None),
     name_long |-> Get2(station, "names", "long", None),
     name_medium |-> Get2(station, "names", "medium", None),
     name_short |-> Get2(station, "names", "short", None),
     name_festive |-> Get2(station, "names", "festive", None),
     synonyms |-> Get2(station, "names", "synonyms", None),
     lat |-> Get2(station, "location", "lat", None),
     lng |-> Get2(station, "location", "lng", None),
     tracks |-> Get(station, "tracks", EmptyList),
     hasKnownFacilities |-> Get(station, "hasKnownFacilities", None),
     availableForAccessibleTravel |-> Get(station, "availableForAccessibleTravel", None),
     hasTravelAssistance |-> Get(station, "hasTravelAssistance", None),
     areTracksIndependentlyAccessible |->
         Get(station, "areTracksIndependentlyAccessible", None),
     isBorderStop |-> Get(station, "isBorderStop", None),
     country |-> Get(station, "country", None),
     radius |-> Get(station, "radius", None),
     approachingRadius |-> Get(station, "approachingRadius", None),
     distance |-> Get(station, "distance", None),
     startDate |-> Get(station, "startDate", None),
     endDate |-> Get(station, "endDate", None),
     nearbyMeLocationId_value |-> Get2(station, "nearbyMeLocationId", "value", None),
     nearbyMeLocationId_type |-> Get2(station, "nearbyMeLocationId", "type", None)]

\* Lines 68-103: the flat row of one station.
StationInfo(station) ==
    [uicCode |-> Get2(station, "id", "uicCode", None),
     evaCode |-> Get2(station, "id", "evaCode", None),
     cdCode |-> Get2(station, "id", "cdCode", None),
     code |-> Get2(station, "id", "code", None),
     stationType |-> Get(station, "stationType", None),
     name_long |-> Get2(station, "names", "long", None),
     name_medium |-> Get2(station, "names", "medium", None),
     name_short |-> Get2(station, "names", "short", None),
     name_festive |-> Get2(station, "names", "festive", None),
     synonyms |-> Get2(station, "names", "synonyms", EmptyList),
     lat |-> Get2(station, "location", "lat", None),
     lng |-> Get2(station, "location", "lng", None),
     tracks |-> Get(station, "tracks", EmptyList),
     hasKnownFacilities |-> Get(station, "hasKnownFacilities", None),
     availableForAccessibleTravel |-> Get(station, "availableForAccessibleTravel", None),
     hasTravelAssistance |-> Get(station, "hasTravelAssistance", None),
     areTracksIndependentlyAccessible |->
         Get(station, "areTracksIndependentlyAccessible", None),
     isBorderStop |-> Get(station, "isBorderStop", None),
     country |-> Get(station, "country", None),
     radius |-> Get(station, "radius", None),
     approachingRadius |-> Get(station, "approachingRadius", None),
     distance |-> Get(station, "distance", None),
     startDate |-> Get(station, "startDate", None),
     endDate |-> Get(station, "endDate", None),
     nearbyMeLocationId_value |-> Get2(station, "nearbyMeLocationId", "value", None),
     nearbyMeLocationId_type |-> Get2(station, "nearbyMeLocationId", "type", None)]

AppendUnlessPresent(list, row) ==
    IF \E i \in 1..Len(list) : list[i] = row THEN list ELSE Append(list, row)

\* Line 104: station_list.append(station_info)
AppendRow(list, row) == Append(list, row)

\* Line 106: pd.DataFrame(list of dicts).  The columns are the keys of the
\* dicts in order of first appearance, so a list with no dict gives a frame
\* with no columns; every dict becomes one row, in list order.
DataFrame(list) ==
    [columns |-> IF Len(list) = 0 THEN <<>> ELSE RowKeys,
     rows |-> list]

\* data.get("payload", [])
Payload(d) == Get(d, "payload", EmptyList)

(* ------------------------------ inputs ------------------------------- *)

MaxStations == 2

Absent == [k |-> "absent"]

FullId ==
    Obj([uicCode |-> Str("8400621"), evaCode |-> Str("8400621"),
         cdCode |-> Num(621), code |-> Str("UT")])
FullNames ==
    Obj([long |-> Str("Utrecht Centraal"), medium |-> Str("Utrecht C."),
         short |-> Str("Utrecht C"), festive |-> Str("Domstad"),
         synonyms |-> List(<<Str("Utrecht CS"), Str("Utrecht")>>)])
FullLocation == Obj([lat |-> Flt("52.09"), lng |-> Flt("5.11")])
FullNearby == Obj([value |-> Str("UT"), type |-> Str("stationV2")])
FullScalars ==
    [stationType |-> Str("MEGA_STATION"),
     tracks |-> List(<<Str("1"), Str("2")>>),
     hasKnownFacilities |-> Bool(TRUE),
     availableForAccessibleTravel |-> Bool(TRUE),
     hasTravelAssistance |-> Bool(FALSE),
     areTracksIndependentlyAccessible |-> Bool(TRUE),
     isBorderStop |-> Bool(FALSE),
     country |-> Str("NL"),
     radius |-> Num(525),
     approachingRadius |-> Num(1000),
     distance |-> None,
     startDate |-> Str("2006-12-10"),
     endDate |-> None]

Field(key, v) == IF v = Absent THEN <<>> ELSE Put(<<>>, key, v)

MkStation(idv, namesv, locv, nearv, scalars) ==
    Obj(Field("id", idv) @@ Field("names", namesv) @@ Field("location", locv)
        @@ Field("nearbyMeLocationId", nearv) @@ scalars)

IdChoices ==
    {Absent, None, EmptyDict, Obj([uicCode |-> Str("8400058")]), FullId}
NamesChoices ==
    {Absent, None, EmptyDict, Obj([long |-> Str("Utrecht Centraal")]), FullNames}
LocationChoices == {Absent, None, Obj([lat |-> Flt("52.09")]), FullLocation}
NearbyChoices == {Absent, None, FullNearby}

FullStation == MkStation(FullId, FullNames, FullLocation, FullNearby, FullScalars)
EmptyStation == Obj(<<>>)
UtrechtStation ==
    MkStation(Obj([uicCode |-> Str("8400058")]),
              Obj([long |-> Str("Utrecht Centraal")]),
              FullLocation, Absent, <<>>)

\* The full station with one part varied, the station with no key and the
\* station of the spec's end-to-end scenario.
Stations ==
    {MkStation(i, FullNames, FullLocation, FullNearby, FullScalars) : i \in IdChoices}
    \cup {MkStation(FullId, n, FullLocation, FullNearby, FullScalars) : n \in NamesChoices}
    \cup {MkStation(FullId, FullNames, l, FullNearby, FullScalars) : l \in LocationChoices}
    \cup {MkStation(FullId, FullNames, FullLocation, n, FullScalars) : n \in NearbyChoices}
    \cup {MkStation(FullId, FullNames, FullLocation, FullNearby, <<>>)}
    \cup {EmptyStation, UtrechtStation}

SeqsUpTo(S, n) == UNION {[1..m -> S] : m \in 0..n}

\* The objects ns_data_to_dataframe is called with: no `payload` key, or a
\* `payload` list of up to MaxStations stations.
FlattenInputs ==
    {EmptyDict, Obj([message |-> Str("no stations")])}
    \cup {Obj([payload |-> List(s)]) : s \in SeqsUpTo(Stations, MaxStations)}

Malformed == [k |-> "malformed"]

\* The bodies a response carries: text that is no JSON, or the JSON value
\* it decodes to.
Bodies ==
    {Malformed, EmptyDict, Obj([payload |-> EmptyList]),
     Obj([message |-> Str("Access denied")]),
     List(<<Str("service unavailable")>>),
     Obj([payload |-> List(<<UtrechtStation>>)]),
     Obj([payload |-> List(<<FullStation, MkStation(None, FullNames, FullLocation, FullNearby, FullScalars)>>)])}

Statuses == {200, 304, 401, 500}

Responses == [status : Statuses, body : Bodies]

\* The filters get_ns_stations is called with.
QChoices == {None, Str(""), Str("Utrecht")}
FlagChoices == {Bool(FALSE), Bool(TRUE)}
CountryChoices == {None, Str(""), Str("NL")}
LimitChoices == {None, Num(0), Num(5)}

(* --------------------------- the state machine ----------------------- *)

Init ==
    /\ pc = "idle"
    /\ entry = "none"
    /\ args = Unset
    /\ params = <<>>
    /\ netCalls = 0
    /\ resp = Unset
    /\ exc = "none"
    /\ fetchRet = Unset
    /\ out = <<>>
    /\ data = Unset
    /\ idx = 0
    /\ station_list = <<>>
    /\ df = Unset
    /\ flattenCalls = 0

\* A call of get_ns_stations(api_key, q, include_non_plannable,
\* country_codes, limit) by a caller other than the script.
CallFetch(q, include_non_plannable, country_codes, limit) ==
    /\ pc = "idle"
    /\ entry' = "fetch"
    /\ args' = [q |-> q, include_non_plannable |-> include_non_plannable,
                country_codes |-> country_codes, limit |-> limit]
    /\ pc' = "f_params"
    /\ UNCHANGED <<params, netCalls, resp, exc, fetchRet, out, data,
                   idx, station_list, df, flattenCalls>>

\* Lines 109-113: the script calls get_ns_stations(api_key, country_codes="NL").
CallMain ==
    /\ pc = "idle"
    /\ entry' = "main"
    /\ args' = [q |-> None, include_non_plannable |-> Bool(FALSE),
                country_codes |-> Str("NL"), limit |-> None]
    /\ pc' = "f_params"
    /\ UNCHANGED <<params, netCalls, resp, exc, fetchRet, out, data,
                   idx, station_list, df, flattenCalls>>

\* A call of ns_data_to_dataframe(d) by a caller other than the script.
CallFlatten(d) ==
    /\ pc = "idle"
    /\ entry' = "flatten"
    /\ data' = d
    /\ idx' = 1
    /\ station_list' = <<>>
    /\ flattenCalls' = flattenCalls + 1
    /\ pc' = "d_loop"
    /\ UNCHANGED <<args, params, netCalls, resp, exc, fetchRet, out, df>>

\* Lines 34-42.
FetchParams ==
    /\ pc = "f_params"
    /\ params' = BuildParams(args.q, args.include_non_plannable,
                             args.country_codes, args.limit)
    /\ pc' = "f_get"
    /\ UNCHANGED <<entry, args, netCalls, resp, exc, fetchRet, out, data,
                   idx, station_list, df, flattenCalls>>

\* Line 45: requests.get returns a response.
FetchGetResponse ==
    /\ pc = "f_get"
    /\ netCalls' = netCalls + 1
    /\ \E r \in Responses : resp' = r
    /\ pc' = "f_raise"
    /\ UNCHANGED <<entry, args, params, exc, fetchRet, out, data,
                   idx, station_list, df, flattenCalls>>

\* Line 45: requests.get fails at transport level.
FetchGetFails ==
    /\ pc = "f_get"
    /\ netCalls' = netCalls + 1
    /\ \E e \in TransportErrors : exc' = e
    /\ pc' = "f_except"
    /\ UNCHANGED <<entry, args, params, resp, fetchRet, out, data,
                   idx, station_list, df, flattenCalls>>

\* Line 46: response.raise_for_status()
FetchRaiseForStatus ==
    /\ pc = "f_raise"
    /\ IF RaisesForStatus(resp.status)
       THEN exc' = "HTTPError" /\ pc' = "f_except"
       ELSE exc' = exc /\ pc' = "f_json"
    /\ UNCHANGED <<entry, args, params, netCalls, resp, fetchRet, out, data,
                   idx, station_list, df, flattenCalls>>

\* Where control goes when get_ns_stations returns.
FetchReturnsTo == IF entry = "main" THEN "m_if" ELSE "done"

\* Line 47: return response.json(), the body decodes.
FetchJsonReturn ==
    /\ pc = "f_json"
    /\ resp.body # Malformed
    /\ fetchRet' = resp.body
    /\ pc' = FetchReturnsTo
    /\ UNCHANGED <<entry, args, params, netCalls, resp, exc, out, data,
                   idx, station_list, df, flattenCalls>>

\* Line 47: response.json() raises, the body is no JSON.
FetchJsonRaises ==
    /\ pc = "f_json"
    /\ resp.body = Malformed
    /\ \E e \in JsonErrors : exc' = e
    /\ pc' = "f_except"
    /\ UNCHANGED <<entry, args, params, netCalls, resp, fetchRet, out, data,
                   idx, station_list, df, flattenCalls>>

\* Lines 48-51: the exception meets the except clauses.  A handled exception
\* prints its line; an exception no clause matches leaves the function.
FetchExcept ==
    /\ pc = "f_except"
    /\ CASE Handler(exc) = "http" ->
              out' = Append(out, HttpLine) /\ exc' = "none" /\ pc' = AfterHandler
         [] Handler(exc) = "req" ->
              out' = Append(out, RequestLine) /\ exc' = "none" /\ pc' = AfterHandler
         [] OTHER ->
              out' = out /\ exc' = exc /\ pc' = "raised"
    /\ UNCHANGED <<entry, args, params, netCalls, resp, fetchRet, data,
                   idx, station_list, df, flattenCalls>>

\* Line 53: return None
FetchReturnNone ==
    /\ pc = "f_return_none"
    /\ fetchRet' = None
    /\ pc' = FetchReturnsTo
    /\ UNCHANGED <<entry, args, params, netCalls, resp, exc, out, data,
                   idx, station_list, df, flattenCalls>>

\* Line 116: `if data:` tests the truth value of what the fetch returned.
DataTest == Truthy(fetchRet)

\* Lines 116-117: the fetched data is truthy, ns_data_to_dataframe is called.
MainCallsFlatten ==
    /\ pc = "m_if"
    /\ DataTest
    /\ data' = fetchRet
    /\ idx' = 1
    /\ station_list' = <<>>
    /\ flattenCalls' = flattenCalls + 1
    /\ pc' = "d_loop"
    /\ UNCHANGED <<entry, args, params, netCalls, resp, exc, fetchRet, out, df>>

\* Lines 120-121: otherwise the failure message is printed.
MainPrintsFailure ==
    /\ pc = "m_if"
    /\ ~DataTest
    /\ out' = Append(out, FailureLine)
    /\ pc' = "done"
    /\ UNCHANGED <<entry, args, params, netCalls, resp, exc, fetchRet, data,
                   idx, station_list, df, flattenCalls>>

\* Lines 67-104: one iteration of the loop over data.get("payload", []);
\* idx is the position of the iterator in the list.
FlattenStation ==
    /\ pc = "d_loop"
    /\ HasGet(data)
    /\ idx <= Len(Payload(data).l)
    /\ LET station == Payload(data).l[idx]
       IN  IF StationInfoRaises(station)
           THEN /\ exc' = "AttributeError"
                /\ pc' = "raised"
                /\ UNCHANGED <<idx, station_list>>
           ELSE /\ station_list' = AppendRow(station_list, StationInfo(station))
                /\ idx' = idx + 1
                /\ UNCHANGED <<exc, pc>>
    /\ UNCHANGED <<entry, args, params, netCalls, resp, fetchRet, out, data,
                   df, flattenCalls>>

\* Line 67: data is no dict, data.get raises AttributeError.
FlattenNoDict ==
    /\ pc = "d_loop"
    /\ ~HasGet(data)
    /\ exc' = "AttributeError"
    /\ pc' = "raised"
    /\ UNCHANGED <<entry, args, params, netCalls, resp, fetchRet, out, data,
                   idx, station_list, df, flattenCalls>>

\* Line 106: the loop is over, the frame is built and returned.
FlattenReturn ==
    /\ pc = "d_loop"
    /\ HasGet(data)
    /\ idx > Len(Payload(data).l)
    /\ df' = DataFrame(station_list)
    /\ pc' = IF entry = "main" THEN "m_print" ELSE "done"
    /\ UNCHANGED <<entry, args, params, netCalls, resp, exc, fetchRet, out,
                   data, idx, station_list, flattenCalls>>

\* Lines 118-119: the header and the table are printed.
MainPrintsTable ==
    /\ pc = "m_print"
    /\ out' = out \o <<TableHeader, TableLine>>
    /\ pc' = "done"
    /\ UNCHANGED <<entry, args, params, netCalls, resp, exc, fetchRet, data,
                   idx, station_list, df, flattenCalls>>

Next ==
    \/ \E q \in QChoices, f \in FlagChoices, c \in CountryChoices, l \in LimitChoices :
          CallFetch(q, f, c, l)
    \/ CallMain
    \/ \E d \in FlattenInputs : CallFlatten(d)
    \/ FetchParams
    \/ FetchGetResponse
    \/ FetchGetFails
    \/ FetchRaiseForStatus
    \/ FetchJsonReturn
    \/ FetchJsonRaises
    \/ FetchExcept
    \/ FetchReturnNone
    \/ MainCallsFlatten
    \/ MainPrintsFailure
    \/ FlattenStation
    \/ FlattenNoDict
    \/ FlattenReturn
    \/ MainPrintsTable

Spec == Init /\ [][Next]_vars

(* ------------------------------ properties --------------------------- *)

\* get_ns_stations has been called and has been left, by a return or by an
\* exception no except clause handled.
FetchOver ==
    /\ entry \in {"fetch", "main"}
    /\ pc \notin {"idle", "f_params", "f_get", "f_raise", "f_json", "f_except",
                  "f_return_none"}

\* The diagnostic lines among the printed lines.
Diagnostics == SelectSeq(out, LAMBDA l : l \in {HttpLine, RequestLine})

TransportFailed == resp = Unset
HttpErrorStatus == resp # Unset /\ resp.status \in 400..599
SuccessStatus == resp # Unset /\ resp.status \in 200..299

\* C1: once the parameters are built, the query-parameter map holds `q`,
\* `countryCodes` and `limit` exactly when the filter was given a truthy
\* value (not None, not "", not 0), each with the value given, and
\* `includeNonPlannableStations` exactly when the flag is true, with the
\* string "true" as its value and never the boolean; it holds no other key.
C1_ExactParams ==
    (entry \in {"fetch", "main"} /\ pc \notin {"idle", "f_params"}) =>
        /\ DOMAIN params \subseteq
               {"q", "includeNonPlannableStations", "countryCodes", "limit"}
        /\ "q" \in DOMAIN params <=> args.q \notin {None, Str("")}
        /\ "q" \in DOMAIN params => params["q"] = args.q
        /\ "countryCodes" \in DOMAIN params <=> args.country_codes \notin {None, Str("")}
        /\ "countryCodes" \in DOMAIN params => params["countryCodes"] = args.country_codes
        /\ "limit" \in DOMAIN params <=> args.limit \notin {None, Num(0)}
        /\ "limit" \in DOMAIN params => params["limit"] = args.limit
        /\ "includeNonPlannableStations" \in DOMAIN params
               <=> args.include_non_plannable = Bool(TRUE)
        /\ "includeNonPlannableStations" \in DOMAIN params =>
               /\ params["includeNonPlannableStations"] = Str("true")
               /\ params["includeNonPlannableStations"] # Bool(TRUE)

C1_Witness ==
    /\ entry = "fetch"
    /\ pc = "done"
    /\ args.q = Str("Utrecht")
    /\ args.include_non_plannable = Bool(TRUE)
    /\ args.country_codes = None
    /\ args.limit = None
    /\ DOMAIN params = {"q", "includeNonPlannableStations"}
    /\ params["includeNonPlannableStations"] = Str("true")

\* C2: when get_ns_stations is left after a transport-level failure or a
\* response with a 4xx/5xx status, it has returned None (no exception left
\* it); after a 2xx response whose body decodes it has returned the decoded
\* body.
C2_NoExceptionEscapes ==
    FetchOver =>
        /\ (TransportFailed \/ HttpErrorStatus) => fetchRet = None
        /\ (SuccessStatus /\ resp.body # Malformed) => fetchRet = resp.body

C2_Witness ==
    /\ FetchOver
    /\ resp # Unset
    /\ resp.status = 401
    /\ fetchRet = None
    /\ exc = "none"

\* C6: no execution of get_ns_stations issues a second GET, and when the
\* function is left, by return or by exception, exactly one has been issued.
C6_OneNetworkCall ==
    /\ netCalls <= 1
    /\ FetchOver => netCalls = 1

C6_Witness ==
    /\ FetchOver
    /\ TransportFailed
    /\ fetchRet = None
    /\ netCalls = 1

\* C8: a call that returned None printed exactly one diagnostic line; after
\* an HTTP error status that line is the "HTTP error occurred" line, after a
\* transport failure it is the "Request error occurred" line; a call that
\* returned a decoded body printed no diagnostic line.
C8_OneDiagnosticLine ==
    FetchOver =>
        /\ fetchRet = None => Len(Diagnostics) = 1
        /\ HttpErrorStatus => Diagnostics = <<HttpLine>>
        /\ TransportFailed => Diagnostics = <<RequestLine>>
        /\ fetchRet \notin {None, Unset} => Diagnostics = <<>>

C8_Witness ==
    /\ FetchOver
    /\ HttpErrorStatus
    /\ Diagnostics = <<HttpLine>>
    /\ fetchRet = None

C7_FlattenIffFetched ==
    (entry = "main" /\ pc = "done") =>
        /\ flattenCalls = 1 <=> fetchRet \notin {None, Unset}
        /\ (\E i \in 1..Len(out) : out[i] = TableLine) <=> fetchRet \notin {None, Unset}
        /\ (\E i \in 1..Len(out) : out[i] = FailureLine) <=> fetchRet = None

(* The nested path of each flat field and the default of the field, as the  *)
(* data model of the flat row states them.                                  *)
FieldPath ==
    [uicCode |-> <<"id", "uicCode">>, evaCode |-> <<"id", "evaCode">>,
     cdCode |-> <<"id", "cdCode">>, code |-> <<"id", "code">>,
     stationType |-> <<"stationType">>,
     name_long |-> <<"names", "long">>, name_medium |-> <<"names", "medium">>,
     name_short |-> <<"names", "short">>, name_festive |-> <<"names", "festive">>,
     synonyms |-> <<"names", "synonyms">>,
     lat |-> <<"location", "lat">>, lng |-> <<"location", "lng">>,
     tracks |-> <<"tracks">>,
     hasKnownFacilities |-> <<"hasKnownFacilities">>,
     availableForAccessibleTravel |-> <<"availableForAccessibleTravel">>,
     hasTravelAssistance |-> <<"hasTravelAssistance">>,
     areTracksIndependentlyAccessible |-> <<"areTracksIndependentlyAccessible">>,
     isBorderStop |-> <<"isBorderStop">>, country |-> <<"country">>,
     radius |-> <<"radius">>, approachingRadius |-> <<"approachingRadius">>,
     distance |-> <<"distance">>, startDate |-> <<"startDate">>,
     endDate |-> <<"endDate">>,
     nearbyMeLocationId_value |-> <<"nearbyMeLocationId", "value">>,
     nearbyMeLocationId_type |-> <<"nearbyMeLocationId", "type">>]

FieldDefault(f) == IF f \in {"synonyms", "tracks"} THEN EmptyList ELSE None

\* Every key of the path is present in the station.
PathPresent(station, path) ==
    /\ path[1] \in DOMAIN station.o
    /\ Len(path) = 2 =>
          /\ station.o[path[1]].k = "obj"
          /\ path[2] \in DOMAIN station.o[path[1]].o

ValueAt(station, path) ==
    IF Len(path) = 1 THEN station.o[path[1]] ELSE station.o[path[1]].o[path[2]]

\* C3: every row the flattener has produced holds, in each of its fields,
\* the value at the field's nested path in the station it was made from
\* when every key of the path is present, and the default otherwise: None,
\* or the empty list for `synonyms` and `tracks`.
C3_RowFields ==
    (entry \in {"flatten", "main"} /\ data # Unset /\ HasGet(data)) =>
        \A i \in 1..Len(station_list) :
            LET station == Payload(data).l[i]
                row == station_list[i]
            IN  /\ DOMAIN row = DOMAIN FieldPath
                /\ \A f \in DOMAIN FieldPath :
                      row[f] = IF PathPresent(station, FieldPath[f])
                               THEN ValueAt(station, FieldPath[f])
                               ELSE FieldDefault(f)

C3_Witness ==
    /\ entry = "flatten"
    /\ pc = "done"
    /\ \E i \in 1..Len(station_list) :
          /\ "location" \notin DOMAIN Payload(data).l[i].o
          /\ station_list[i].lat = None
          /\ station_list[i].lng = None
          /\ station_list[i].synonyms = List(<<Str("Utrecht CS"), Str("Utrecht")>>)
          /\ station_list[i].uicCode = Str("8400621")

\* C4: the frame ns_data_to_dataframe returns has one row per element of
\* the `payload` list, row i made from element i; with no `payload` key it
\* has no row.
C4_OneRowPerStation ==
    (df # Unset) =>
        /\ Len(df.rows) = Len(Payload(data).l)
        /\ "payload" \notin DOMAIN data.o => Len(df.rows) = 0
        /\ \A i \in 1..Len(df.rows) :
              /\ ~StationInfoRaises(Payload(data).l[i])
              /\ df.rows[i] = StationInfo(Payload(data).l[i])

C4_Witness ==
    /\ df # Unset
    /\ Len(Payload(data).l) = 2
    /\ Payload(data).l[1] = Payload(data).l[2]
    /\ Len(df.rows) = 2
    /\ df.rows[1] = df.rows[2]

\* C5: the frame returned for an empty `payload` list has no row and has
\* the full fixed column set.
C5_EmptyPayloadColumns ==
    (df # Unset /\ "payload" \in DOMAIN data.o /\ Payload(data) = EmptyList) =>
        /\ Len(df.rows) = 0
        /\ df.columns = RowKeys

\* C10: ns_data_to_dataframe raises no error when `payload` is a list of
\* station objects, whatever each station holds.
C10_FlattenNeverRaises ==
    (entry = "flatten" /\ \A i \in 1..Len(Payload(data).l) : HasGet(Payload(data).l[i]))
        => exc = "none"

====
